---- MODULE Spec2Model ----
(***************************************************************************)
(* twtcli.py: the request / pagination / rate-limit loop of the script,    *)
(* the fingerprint (req_hash) of a request and the resume record kept in   *)
(* .cursor/<req_hash>.                                                      *)
(*                                                                         *)
(* Python values are written as strings: "null" is None, "s:..." a str,    *)
(* "n:k" the number k; "absent" marks a key that is not in a mapping.      *)
(* Times and durations are whole seconds.                                  *)
(***************************************************************************)
EXTENDS Integers, Sequences, FiniteSets, TLC

\* ------------------------------------------------------------------ bounds
MaxTime == 2        \* the clock and the numeric reset headers stay in -1..MaxTime
MaxSends == 2       \* requests dispatched by one invocation
MaxRuns == 2        \* invocations of the script in one behaviour of SpecResume
WaitSecs == 1       \* the non-zero value of --wait that is tried
RatelimitSecs == 2  \* the value of --ratelimit that is tried

\* ------------------------------------------------------------------ values
Null == "null"
Absent == "absent"

\* what `not v` / `v or w` of Python sees: None, '' and 0 are false
Truthy(v) == v \notin {Null, "s:", "n:0", Absent}

\* values the caller can give with -d k=v (always str)
CallerCursors == {Absent, "s:a"}
CallerMaxIds == {Absent, "s:1"}

\* values a JSON body can carry in next_cursor / id
BodyCursors == {Null, "n:0", "s:b"}
BodyIds == {"n:1", "n:2"}

EmptyMap == [cursor |-> Absent, max_id |-> Absent]

\* the -d options after the loop of lines 137-139; at most one of the two
\* continuation keys is given
DataMaps ==
    { d \in [cursor : CallerCursors, max_id : CallerMaxIds] :
        d.cursor = Absent \/ d.max_id = Absent }

ArgSets ==
    { a \in [post : BOOLEAN, json : BOOLEAN, data : DataMaps,
             wait : {0, WaitSecs}, ratelimit : {RatelimitSecs},
             ignore_ratelimit : BOOLEAN, follow_cursor : BOOLEAN,
             no_resume : BOOLEAN] :
        /\ a.json => a.post
        \* options that lines 243-265 alone read stay at their defaults when
        \* the loop cannot get there
        /\ ~a.follow_cursor => (~a.ignore_ratelimit /\ a.wait = 0)
        \* the body encoding and the -d options of a POST never reach the
        \* loop's decisions: they are varied on single-page runs only
        /\ a.follow_cursor =>
              (~a.json /\ (a.post => (a.data = EmptyMap /\ ~a.no_resume))) }

\* ------------------------------------------------------------ fingerprint
url == "https://api.twitter.com/1.1/endpoint.json"

Method(a) == IF a.post THEN "POST" ELSE "GET"

\* req_args after lines 134-149: the body key is 'json', 'data' or none
ReqArgs(a) ==
    IF a.post
    THEN [params |-> EmptyMap, bodykey |-> IF a.json THEN "json" ELSE "data",
          body |-> a.data]
    ELSE [params |-> a.data, bodykey |-> "none", body |-> EmptyMap]

\* json.dumps(mapping, sort_keys=True): the present keys, in key order
DumpsMap(m) ==
    SelectSeq(<< <<"cursor", m.cursor>>, <<"max_id", m.max_id>> >>,
              LAMBDA kv : kv[2] # Absent)

\* json.dumps({'method':..., 'url':..., **req_args}, sort_keys=True)
DumpsReqData(m, u, ra) ==
    (IF ra.bodykey = "none" THEN << >>
     ELSE << <<ra.bodykey, DumpsMap(ra.body)>> >>)
    \o << <<"method", m>>, <<"params", DumpsMap(ra.params)>>, <<"url", u>> >>

\* hashlib.sha256(...).hexdigest(): a digest stands for its preimage
Sha256Hex(text) == <<"sha256", text>>

ReqHash(a) == Sha256Hex(DumpsReqData(Method(a), url, ReqArgs(a)))

\* lines 151-159: the cursor / max_id the caller gave, as the script sees them
ExplicitCursor(a) ==
    IF ReqArgs(a).params.cursor # Absent THEN ReqArgs(a).params.cursor ELSE Null

ExplicitMaxId(a) ==
    IF ReqArgs(a).params.max_id # Absent THEN ReqArgs(a).params.max_id ELSE Null

\* ------------------------------------------------------------ record file
\* A file is a sequence of chunks of text. json.dump writes one "object"
\* chunk; the other kinds are text some other writer left there.
\* An "object" chunk holds the JSON text of each value, Absent for a key
\* that is not there.
\* JsonEncode with the quotes of a str left out, as str() would write it
JsonEncodeBare(v) ==
    CASE v = Absent -> Absent
      [] v = Null -> "null"
      [] v = "n:0" -> "0"
      [] v = "n:1" -> "1"
      [] v = "n:2" -> "2"
      [] v = "s:" -> ""
      [] v = "s:a" -> "a"
      [] v = "s:b" -> "b"
      [] v = "s:1" -> "1"

\* json.dump of one value: null, a number, or a str in quotes
JsonEncode(v) ==
    CASE v = Absent -> Absent
      [] v = Null -> "null"
      [] v = "n:0" -> "0"
      [] v = "n:1" -> "1"
      [] v = "n:2" -> "2"
      [] v = "s:" -> "\"\""
      [] v = "s:a" -> "\"a\""
      [] v = "s:b" -> "\"b\""
      [] v = "s:1" -> "\"1\""

\* json.load of one value; "invalid" for text that is no JSON value
JsonDecode(text) ==
    CASE text = Absent -> Absent
      [] text = "null" -> Null
      [] text = "0" -> "n:0"
      [] text = "1" -> "n:1"
      [] text = "2" -> "n:2"
      [] text = "\"\"" -> "s:"
      [] text = "\"a\"" -> "s:a"
      [] text = "\"b\"" -> "s:b"
      [] text = "\"1\"" -> "s:1"
      [] OTHER -> "invalid"

ObjectChunk(c, m) ==
    [kind |-> "object", cursor |-> JsonEncode(c), max_id |-> JsonEncode(m)]
ListChunk == [kind |-> "list", cursor |-> Absent, max_id |-> Absent]
GarbageChunk == [kind |-> "garbage", cursor |-> Absent, max_id |-> Absent]

NoFile == [exists |-> FALSE, disk |-> << >>]
FileOf(content) == [exists |-> TRUE, disk |-> content]

\* json.dump({'cursor': cursor, 'max_id': max_id}, fd)
JsonDump(c, m) == << ObjectChunk(c, m) >>

\* json.load(fd) followed by data.get('cursor'), data.get('max_id')
\* (lines 174-176): what the try block of line 173 ends with
JsonLoad(content) ==
    IF Len(content) # 1 \/ content[1].kind = "garbage"
    THEN [outcome |-> "ValueError", cursor |-> Null, max_id |-> Null]
    ELSE IF content[1].kind # "object"
    THEN [outcome |-> "AttributeError", cursor |-> Null, max_id |-> Null]
    ELSE LET c == JsonDecode(content[1].cursor)
             m == JsonDecode(content[1].max_id)
         IN  IF c = "invalid" \/ m = "invalid"
             THEN [outcome |-> "ValueError", cursor |-> Null, max_id |-> Null]
             ELSE [outcome |-> "ok",
                   cursor |-> IF c = Absent THEN Null ELSE c,
                   max_id |-> IF m = Absent THEN Null ELSE m]

\* what .cursor/<hash> can hold when the first invocation opens it
InitialFiles ==
    { NoFile, FileOf(<< >>), FileOf(<< GarbageChunk >>), FileOf(<< ListChunk >>),
      FileOf(<< ObjectChunk("s:b", Absent) >>),
      FileOf(<< ObjectChunk("s:b", "n:1") >>),
      FileOf(<< ObjectChunk(Null, "n:1") >>) }

VARIABLES
    args,       \* the parsed command line of the running invocation
    req_hash,   \* its fingerprint; names its record file
    cursor,     \* continuation values held by the loop
    max_id,
    pc,         \* where the invocation is
    fdbuf,      \* text written to fd and not yet flushed to the file
    files,      \* .cursor/: fingerprint -> the file on disk, for the
                \* fingerprints used so far
    now,        \* time.time()
    sleep,      \* the duration passed to the time.sleep in progress
    wire,       \* the request handed to session.request most recently
    log,        \* what the invocation has done so far, oldest first
    exit,       \* how the invocation ended
    nsent,      \* requests dispatched by this invocation
    runs,       \* invocations started
    prev,       \* how the invocation before this one ended
    found,      \* whether the record file was there when the invocation opened it
    last,       \* the response handled most recently: its status, its body
                \* as decoded and, of a 420 / 429, its reset header
    procs       \* invocations that run at the same time on one record file:
                \* for each, its position, its fd and its cursor / max_id

vars == <<args, req_hash, cursor, max_id, pc, fdbuf, files, now, sleep, wire,
          log, exit, nsent, runs, prev, found, last, procs>>

NoArgs == CHOOSE a \in ArgSets : TRUE
NoWire == [method |-> "none", cursor |-> Absent, max_id |-> Absent,
           bodykey |-> "none", body |-> EmptyMap]

\* two invocations started side by side
Procs == {1, 2}
IdleProc == [pc |-> "idle", fdbuf |-> << >>, cursor |-> Null, max_id |-> Null,
             detached |-> FALSE]

NoResponse == [status |-> 0, reset |-> [kind |-> "absent", v |-> 0],
               body |-> [shape |-> "text", next_cursor |-> Absent,
                         last_id |-> Absent]]

Init ==
    /\ args = NoArgs
    /\ req_hash = ReqHash(NoArgs)
    /\ cursor = Null
    /\ max_id = Null
    /\ pc = "idle"
    /\ fdbuf = << >>
    /\ files = [h \in {} |-> NoFile]
    /\ now = 0
    /\ sleep = 0
    /\ wire = NoWire
    /\ log = << >>
    /\ exit = "none"
    /\ nsent = 0
    /\ runs = 0
    /\ prev = [args |-> NoArgs, exit |-> "none", wire |-> NoWire]
    /\ found = FALSE
    /\ last = NoResponse
    /\ procs = [i \in Procs |-> IdleProc]


\* ------------------------------------------------------------- file object
\* fd is opened 'a+' (line 169) and is buffered: text written with
\* json.dump stays in fdbuf until fd.seek, fd.truncate or the end of the
\* with block flushes it; a flushed write lands at the end of the file.
Flush(f, buf) == [f EXCEPT !.disk = @ \o buf]

\* fd.seek(0); fd.truncate() (lines 186-187)
SeekTruncate(f, buf) == [Flush(f, buf) EXCEPT !.disk = << >>]

\* open(cursor_file, 'a+') (line 169): creates the file when it is missing
Open(f) == [f EXCEPT !.exists = TRUE]

\* os.remove(cursor_file) with FileNotFoundError ignored (lines 271-274)
Remove(f) == NoFile

\* ---------------------------------------------------------------- responses
Statuses == {200, 204, 304, 404, 420, 429}

\* Ok with the client errors let through
OkBelow500(status) == status < 500

\* requests' Response.ok / raise_for_status (lines 223-224): an error is
\* raised for the 4xx and 5xx statuses only
Ok(status) == ~(400 <= status /\ status < 600)

RateLimited(status) == status \in {420, 429}

\* a header: missing, text that float() rejects, or a number
NoHeader == [kind |-> "absent", v |-> 0]
BadHeader == [kind |-> "nonnum", v |-> 0]
Num(n) == [kind |-> "num", v |-> n]
ResetHeaders == {NoHeader, BadHeader} \cup { Num(n) : n \in -1..MaxTime }
RemainHeaders == {NoHeader, Num(0), Num(2)}

\* the decoded body (lines 213-219): a mapping (with or without
\* next_cursor), a sequence (empty: "nolast"; last element without an id or
\* not a mapping: Absent; else its id) or a scalar / raw text
DictBody(nc) == [shape |-> "dict", next_cursor |-> nc, last_id |-> Absent]
ListBody(id) == [shape |-> "list", next_cursor |-> Absent, last_id |-> id]
TextBody == [shape |-> "text", next_cursor |-> Absent, last_id |-> Absent]
Bodies ==
    { DictBody(nc) : nc \in BodyCursors \cup {Absent} }
    \cup { ListBody(id) : id \in BodyIds \cup {Absent, "nolast"} }
    \cup { TextBody }

\* lines 213-219: a 204 gives '' whatever the body
Decoded(status, body) == IF status = 204 THEN TextBody ELSE body

\* RateLimitStep with the reset header ignored
RateLimitStepNoReset(reset, t, ratelimit) ==
    IF reset.kind = "nonnum"
    THEN [next |-> "raise", delay |-> 0]
    ELSE [next |-> "sleep", delay |-> ratelimit]

\* lines 200-211: the rate-limit branch. float() of a non-numeric header and
\* time.sleep() of a negative duration raise ValueError.
RateLimitStep(reset, t, ratelimit) ==
    IF reset.kind = "nonnum"
    THEN [next |-> "raise", delay |-> 0]
    ELSE LET r == IF reset.kind = "num" THEN reset.v ELSE 0
             delay == IF r > 0 THEN r - t ELSE ratelimit
         IN  IF delay < 0 THEN [next |-> "raise", delay |-> delay]
             ELSE [next |-> "sleep", delay |-> delay]

\* lines 226-229: resp.get('next_cursor') of a mapping (None when the key is
\* missing); any other shape raises AttributeError and keeps cursor
NextCursor(resp, c) ==
    IF resp.shape = "dict"
    THEN (IF resp.next_cursor = Absent THEN Null ELSE resp.next_cursor)
    ELSE c

\* lines 231-238: resp[-1]['id'] of a non-empty sequence whose last element
\* is a mapping with an id; anything else raises and keeps max_id
HasLastId(resp) == resp.shape = "list" /\ resp.last_id \notin {Absent, "nolast"}

NextMaxId(resp, m) == IF HasLastId(resp) THEN resp.last_id ELSE m

\* Stalled with the comparison of line 235 left out
StalledNever(resp, m) == FALSE

\* lines 235-236
Stalled(resp, m) == HasLastId(resp) /\ resp.last_id = m

Max(a, b) == IF a >= b THEN a ELSE b

\* lines 243-265: the pause before the next page. "none": no time.sleep
\* call; "raise": float() of a bad header or a division by zero.
PacingStep(a, reset, remain, t) ==
    IF a.ignore_ratelimit
    THEN (IF a.wait # 0 THEN [next |-> "sleep", delay |-> a.wait]
          ELSE [next |-> "none", delay |-> 0])
    ELSE IF remain.kind # "absent" /\ reset.kind # "absent"
    THEN (IF reset.kind = "nonnum" \/ remain.kind = "nonnum" \/ remain.v = 0
          THEN [next |-> "raise", delay |-> 0]
          ELSE [next |-> "sleep",
                delay |-> Max((reset.v - t) \div remain.v, 0)])
    ELSE [next |-> "sleep", delay |-> a.wait]

\* line 267
Continue(a, c, m) == a.follow_cursor /\ (Truthy(c) \/ Truthy(m))

\* ------------------------------------------------------------------ actions
\* RecordKept with the test of line 267 in the place of line 270's
RecordKeptIfAny(c, m) == Truthy(c) \/ Truthy(m)

\* line 270: `if not cursor` guards the removal
RecordKept(c, m) == Truthy(c)

\* CleanExit with the values held at the end saved before fd is closed
CleanExitSaved(c, m) ==
    /\ pc' = "done"
    /\ exit' = "ok"
    /\ fdbuf' = << >>
    /\ files' = [files EXCEPT ![req_hash] =
                    IF RecordKept(c, m) THEN FileOf(JsonDump(c, m))
                    ELSE Remove(Flush(@, fdbuf))]
    /\ sleep' = 0

\* The end of the with block and lines 270-274: fd is closed (flushing it)
\* and the record is removed when cursor is false.
CleanExit(c, m) ==
    /\ pc' = "done"
    /\ exit' = "ok"
    /\ fdbuf' = << >>
    /\ files' = [files EXCEPT ![req_hash] =
                    IF RecordKept(c, m) THEN Flush(@, fdbuf)
                    ELSE Remove(Flush(@, fdbuf))]
    /\ sleep' = 0

\* An exception leaves the with block (fd closed, so flushed) and ends the
\* script before line 270.
Abort(why) ==
    /\ pc' = "failed"
    /\ exit' = why
    /\ fdbuf' = << >>
    /\ files' = [files EXCEPT ![req_hash] = Flush(@, fdbuf)]
    /\ sleep' = 0

\* .cursor/<h> as the directory has it
FileAt(h) == IF h \in DOMAIN files THEN files[h] ELSE NoFile

\* lines 134-181: one invocation up to the top of the loop
Invoke(a, f) ==
    /\ runs' = runs + 1
    /\ args' = a
    /\ req_hash' = ReqHash(a)
    /\ fdbuf' = << >>
    /\ files' = [h \in DOMAIN files \cup {ReqHash(a)} |->
                    IF h = ReqHash(a) THEN Open(f) ELSE files[h]]
    /\ sleep' = 0
    /\ wire' = NoWire
    /\ log' = << >>
    /\ nsent' = 0
    /\ now' = 0
    /\ last' = NoResponse
    /\ found' = f.exists
    /\ UNCHANGED procs
    /\ LET c0 == ExplicitCursor(a)
           m0 == ExplicitMaxId(a)
           ld == JsonLoad(f.disk)
       IN  IF a.no_resume \/ Truthy(c0) \/ Truthy(m0) \/ ld.outcome = "ValueError"
           THEN cursor' = c0 /\ max_id' = m0 /\ pc' = "send" /\ exit' = "none"
           ELSE IF ld.outcome = "ok"
           THEN /\ cursor' = ld.cursor /\ max_id' = ld.max_id
                /\ pc' = "send" /\ exit' = "none"
           ELSE /\ cursor' = c0 /\ max_id' = m0
                /\ pc' = "failed" /\ exit' = ld.outcome

\* the first invocation; f is what it finds in .cursor/<hash>
Start(a, f) ==
    /\ pc = "idle"
    /\ Invoke(a, f)
    /\ UNCHANGED prev

\* a later invocation, after the one before it has ended; the clock starts
\* again at 0
Rerun(a) ==
    /\ pc \in {"done", "failed"}
    /\ runs < MaxRuns
    /\ Invoke(a, FileAt(ReqHash(a)))
    /\ prev' = [args |-> args, exit |-> exit, wire |-> wire]

\* lines 184-196: merge the continuation values, rewrite the record, dispatch
Send ==
    /\ pc = "send"
    /\ nsent < MaxSends
    /\ nsent' = nsent + 1
    /\ wire' = [method |-> Method(args), cursor |-> cursor, max_id |-> max_id,
                bodykey |-> ReqArgs(args).bodykey, body |-> ReqArgs(args).body]
    /\ files' = [files EXCEPT ![req_hash] = SeekTruncate(@, fdbuf)]
    /\ fdbuf' = JsonDump(cursor, max_id)
    /\ pc' = "wait"
    /\ log' = Append(log, "send")
    /\ UNCHANGED <<args, req_hash, cursor, max_id, now, sleep, exit, runs, prev,
                   found, last,
                   procs>>

\* lines 200-211: a 420 / 429 response
Throttled(status, reset) ==
    /\ pc = "wait"
    /\ RateLimited(status)
    /\ last' = [status |-> status, reset |-> reset, body |-> TextBody]
    /\ LET r == RateLimitStep(reset, now, args.ratelimit)
       IN  IF r.next = "raise"
           THEN Abort("ValueError") /\ log' = Append(log, "raise")
           ELSE /\ pc' = "sleep_rl"
                /\ sleep' = r.delay
                /\ log' = Append(log, "sleep_rl")
                /\ UNCHANGED <<fdbuf, files, exit>>
    /\ UNCHANGED <<args, req_hash, cursor, max_id, now, wire, nsent, runs, prev,
                   found,
                   procs>>

\* time.sleep returns in the rate-limit branch; `continue`
WakeRateLimit ==
    /\ pc = "sleep_rl"
    /\ now + sleep <= MaxTime
    /\ now' = now + sleep
    /\ sleep' = 0
    /\ pc' = "send"
    /\ UNCHANGED <<args, req_hash, cursor, max_id, fdbuf, files, wire, log,
                   exit, nsent, runs, prev, found, last,
                   procs>>

\* PrintResp moved below the raise_for_status of line 224
PrintRespIfOk(status) == IF Ok(status) THEN <<"out">> ELSE << >>

\* lines 213-221: print(json.dumps(resp), flush=True), one value on standard
\* output for any response that gets past the rate-limit branch
PrintResp(status) == <<"out">>

\* lines 213-224 for a status that raise_for_status rejects
HttpError(status) ==
    /\ pc = "wait"
    /\ ~RateLimited(status)
    /\ ~Ok(status)
    /\ last' = [status |-> status, reset |-> NoHeader, body |-> TextBody]
    /\ Abort("HTTPError")
    /\ log' = log \o PrintResp(status) \o <<"raise">>
    /\ UNCHANGED <<args, req_hash, cursor, max_id, now, wire, nsent, runs, prev,
                   found,
                   procs>>

\* ReachesPacing with the test of line 240 left out
ReachesPacingAlways(a, resp, m) == ~Stalled(resp, m)

\* the pacing block (lines 243-265) is reached with these values
ReachesPacing(a, resp, m) == a.follow_cursor /\ ~Stalled(resp, m)

\* lines 213-268 for any other response, up to the time.sleep of the pacing
\* block or the end of the script
Respond(status, body, reset, remain) ==
    /\ pc = "wait"
    /\ ~RateLimited(status)
    /\ Ok(status)
    /\ LET resp == Decoded(status, body)
           c == NextCursor(resp, cursor)
           m == NextMaxId(resp, max_id)
           p == PacingStep(args, reset, remain, now)
       IN  /\ last' = [status |-> status, reset |-> NoHeader, body |-> resp]
           /\ cursor' = c
           /\ max_id' = m
           /\ IF ~ReachesPacing(args, resp, max_id)
              THEN CleanExit(c, m) /\ log' = log \o PrintResp(status) \o <<"stop">>
              ELSE IF p.next = "raise"
              THEN /\ Abort(IF reset.kind = "nonnum" THEN "ValueError"
                            ELSE "ZeroDivisionError")
                   /\ log' = log \o PrintResp(status) \o <<"raise">>
              ELSE IF p.next = "sleep"
              THEN /\ pc' = "sleep_pace"
                   /\ sleep' = p.delay
                   /\ log' = log \o PrintResp(status) \o <<"sleep_pace">>
                   /\ UNCHANGED <<fdbuf, files, exit>>
              ELSE IF Continue(args, c, m)
              THEN /\ pc' = "send"
                   /\ log' = log \o PrintResp(status)
                   /\ UNCHANGED <<fdbuf, files, exit, sleep>>
              ELSE CleanExit(c, m) /\ log' = log \o PrintResp(status) \o <<"stop">>
    /\ UNCHANGED <<args, req_hash, now, wire, nsent, runs, prev, found,
                   procs>>

\* time.sleep returns in the pacing block; line 267 decides
WakePacing ==
    /\ pc = "sleep_pace"
    /\ now + sleep <= MaxTime
    /\ now' = now + sleep
    /\ IF Continue(args, cursor, max_id)
       THEN pc' = "send" /\ sleep' = 0 /\ UNCHANGED <<fdbuf, files, exit, log>>
       ELSE CleanExit(cursor, max_id) /\ log' = Append(log, "stop")
    /\ UNCHANGED <<args, req_hash, cursor, max_id, wire, nsent, runs, prev,
                   found, last,
                   procs>>

\* session.request raises (connection, DNS, TLS)
TransportError ==
    /\ pc = "wait"
    /\ Abort("ConnectionError")
    /\ log' = Append(log, "raise")
    /\ UNCHANGED <<args, req_hash, cursor, max_id, now, wire, nsent, runs,
                   prev, found, last,
                   procs>>

\* KeyboardInterrupt while blocked in session.request or time.sleep
Interrupt ==
    /\ pc \in {"wait", "sleep_rl", "sleep_pace"}
    /\ Abort("KeyboardInterrupt")
    /\ log' = Append(log, "raise")
    /\ UNCHANGED <<args, req_hash, cursor, max_id, now, wire, nsent, runs,
                   prev, found, last,
                   procs>>

\* the responses tried: only a 200 comes with a body
BodiesOf(status) == IF status = 200 THEN Bodies ELSE {TextBody}

\* the header pairs tried with a response: all of them where lines 254-256
\* read them, none elsewhere
HeadersOf(status, body) ==
    IF ReachesPacing(args, Decoded(status, body), max_id) /\ ~args.ignore_ratelimit
    THEN { h \in [reset : ResetHeaders, remain : RemainHeaders] :
             h.remain = NoHeader => h.reset \in {NoHeader, Num(1)} }
    ELSE { [reset |-> NoHeader, remain |-> NoHeader] }

\* the reset headers tried with a rate-limited response: all of them with
\* a 429, a missing one with a 420
ResetsOf(status) == IF status = 429 THEN ResetHeaders ELSE {NoHeader}

Next ==
    \/ \E a \in ArgSets, f \in InitialFiles : Start(a, f)
    \/ Send
    \/ \E st \in Statuses : \E reset \in ResetsOf(st) : Throttled(st, reset)
    \/ WakeRateLimit
    \/ \E st \in Statuses : HttpError(st)
    \/ \E st \in Statuses : \E body \in BodiesOf(st) :
          \E h \in HeadersOf(st, body) : Respond(st, body, h.reset, h.remain)
    \/ WakePacing
    \/ TransportError
    \/ Interrupt

\* one invocation of the script
Spec == Init /\ [][Next]_vars

\* ------------------------------------------------- an invocation run again
\* The script is run again with the same options, -d cursor=, -d max_id=
\* and --no-resume apart. Invocations of a single page, or a plain GET
\* following without pacing sleeps; a record file that is missing or
\* well-formed at first, one response of each kind; the last invocation is
\* followed up to its first request.
SameCommand(a, b) ==
    /\ a.post = b.post /\ a.json = b.json
    /\ a.wait = b.wait /\ a.ratelimit = b.ratelimit
    /\ a.ignore_ratelimit = b.ignore_ratelimit
    /\ a.follow_cursor = b.follow_cursor

ResumeArgSets ==
    { a \in ArgSets :
        a.follow_cursor => /\ a.ignore_ratelimit /\ a.wait = 0
                           /\ ~a.post /\ a.data = EmptyMap /\ ~a.no_resume }

ResumeInitialFiles ==
    { NoFile, FileOf(<< ObjectChunk("s:b", "n:1") >>),
      FileOf(<< ObjectChunk("s:1", Null) >>) }

NextResume ==
    \/ \E a \in ResumeArgSets, f \in ResumeInitialFiles : Start(a, f)
    \/ \E a \in ResumeArgSets : SameCommand(args, a) /\ Rerun(a)
    \/ Send
    \/ runs < MaxRuns /\ Throttled(429, NoHeader)
    \/ runs < MaxRuns /\ WakeRateLimit
    \/ runs < MaxRuns /\ HttpError(404)
    \/ runs < MaxRuns /\ \E body \in Bodies : Respond(200, body, NoHeader, NoHeader)
    \/ runs < MaxRuns /\ TransportError
    \/ runs < MaxRuns /\ Interrupt

SpecResume == Init /\ [][NextResume]_vars

\* ------------------------------------- two invocations on one record file
\* Two single-page invocations of the same command line (so of the same
\* fingerprint) run side by side. Each has its own fd on .cursor/<hash>,
\* opened 'a+': a flushed write lands at the end of the file whoever wrote
\* before. An invocation whose file was removed by the other one keeps
\* writing to the unlinked file (detached), out of the directory.
SharedArgs ==
    [post |-> FALSE, json |-> FALSE, data |-> EmptyMap, wait |-> 0,
     ratelimit |-> RatelimitSecs, ignore_ratelimit |-> FALSE,
     follow_cursor |-> FALSE, no_resume |-> FALSE]

SharedHash == ReqHash(SharedArgs)

MainVars == <<args, req_hash, cursor, max_id, pc, fdbuf, now, sleep, wire, log,
              exit, nsent, runs, prev, found, last>>

\* lines 166-181 in invocation i; f is what the first of them finds
ProcOpen(i, f) ==
    /\ procs[i].pc = "idle"
    /\ SharedHash \in DOMAIN files => f = files[SharedHash]
    /\ files' = [h \in DOMAIN files \cup {SharedHash} |->
                    IF h = SharedHash THEN Open(f) ELSE files[h]]
    /\ LET ld == JsonLoad(f.disk)
       IN  procs' = [procs EXCEPT ![i] =
                IF ld.outcome = "AttributeError"
                THEN [@ EXCEPT !.pc = "failed"]
                ELSE [@ EXCEPT !.pc = "send", !.cursor = ld.cursor,
                               !.max_id = ld.max_id]]
    /\ UNCHANGED MainVars

\* lines 184-196 in invocation i
ProcSend(i) ==
    /\ procs[i].pc = "send"
    /\ files' = IF procs[i].detached THEN files
                ELSE [files EXCEPT ![SharedHash] = SeekTruncate(@, procs[i].fdbuf)]
    /\ procs' = [procs EXCEPT ![i] =
                    [@ EXCEPT !.pc = "wait",
                              !.fdbuf = JsonDump(procs[i].cursor, procs[i].max_id)]]
    /\ UNCHANGED MainVars

\* lines 213-241 and 270-274 in invocation i, for a 200: the page is
\* handled, fd is closed and the record removed when cursor is false; the
\* removal unlinks the file under the fd of the other invocation
ProcRespond(i, body) ==
    /\ procs[i].pc = "wait"
    /\ LET c == NextCursor(body, procs[i].cursor)
           m == NextMaxId(body, procs[i].max_id)
           flushed == IF procs[i].detached THEN FileAt(SharedHash)
                      ELSE Flush(FileAt(SharedHash), procs[i].fdbuf)
       IN  /\ files' = [files EXCEPT ![SharedHash] =
                            IF RecordKept(c, m) THEN flushed ELSE Remove(flushed)]
           /\ procs' = [j \in Procs |->
                 IF j = i
                 THEN [procs[i] EXCEPT !.pc = "done", !.fdbuf = << >>,
                                       !.cursor = c, !.max_id = m]
                 ELSE IF ~RecordKept(c, m) /\ procs[j].pc \in {"send", "wait"}
                 THEN [procs[j] EXCEPT !.detached = TRUE]
                 ELSE procs[j]]
    /\ UNCHANGED MainVars

\* session.request raises in invocation i: fd is closed on the way out
ProcAbort(i) ==
    /\ procs[i].pc = "wait"
    /\ files' = IF procs[i].detached THEN files
                ELSE [files EXCEPT ![SharedHash] = Flush(@, procs[i].fdbuf)]
    /\ procs' = [procs EXCEPT ![i] = [@ EXCEPT !.pc = "failed", !.fdbuf = << >>]]
    /\ UNCHANGED MainVars

NextShared ==
    \/ \E i \in Procs, f \in ResumeInitialFiles : ProcOpen(i, f)
    \/ \E i \in Procs : ProcSend(i)
    \/ \E i \in Procs, body \in Bodies : ProcRespond(i, body)
    \/ \E i \in Procs : ProcAbort(i)

SpecShared == Init /\ [][NextShared]_vars

\* ------------------------------------------------------------------ claims
\* a step in which the loop handles the response to the request in flight
Handled ==
    /\ pc = "wait"
    /\ log' # log
    /\ exit' \notin {"ConnectionError", "KeyboardInterrupt"}

\* C1: whenever a request is with the transport, the record file of the
\* fingerprint, as it is on disk, holds exactly the cursor / max_id pair that
\* the request carries.
SaveBeforeSend ==
    pc = "wait" => FileAt(req_hash) = FileOf(JsonDump(wire.cursor, wire.max_id))

\* two command lines for the same method, URL and body encoding, that is,
\* equal but for the cursor / max_id the caller gives
SameLogicalRequest(a, b) == a.post = b.post /\ a.json = b.json

\* C2: the fingerprint of an invocation is the fingerprint of every
\* invocation that differs from it only in the presence or value of the
\* caller-supplied cursor and max_id.
FingerprintStability ==
    pc # "idle" =>
        \A b \in ArgSets : SameLogicalRequest(args, b) => ReqHash(b) = req_hash

\* C3: a 420 / 429 response never ends the invocation with an exception of
\* the loop's own: after one, the invocation sleeps or sends again, and it
\* fails only if the user interrupts it or the transport fails.
RateLimitNeverRaises ==
    (RateLimited(last.status) /\ pc = "failed")
        => exit \in {"KeyboardInterrupt", "ConnectionError"}

\* C4: a 429 whose reset header lies in the future is followed by one sleep
\* of reset - now and then by one request equal to the throttled one; no
\* output is written and cursor / max_id do not change on the way.
RetryInPlace ==
    [][ /\ (Handled /\ last'.status = 429 /\ last'.reset.kind = "num"
                /\ last'.reset.v > now)
            => /\ pc' = "sleep_rl"
               /\ sleep' = last'.reset.v - now
               /\ log' = Append(log, "sleep_rl")
               /\ cursor' = cursor /\ max_id' = max_id /\ wire' = wire
        /\ (pc = "sleep_rl" /\ pc' # "sleep_rl" /\ exit' # "KeyboardInterrupt"
                /\ last.status = 429 /\ last.reset.kind = "num" /\ last.reset.v > 0)
            => /\ pc' = "send"
               /\ now' = now + sleep
               /\ log' = log
               /\ cursor' = cursor /\ max_id' = max_id /\ wire' = wire
        /\ (pc = "send" /\ pc' # "send"
                /\ last.status = 429 /\ last.reset.kind = "num" /\ last.reset.v > 0)
            => /\ pc' = "wait"
               /\ wire' = wire
               /\ log' = Append(log, "send")
               /\ cursor' = cursor /\ max_id' = max_id
      ]_vars

\* C4 witness: the retry of a request throttled until reset is in flight
RetrySent ==
    /\ pc = "wait"
    /\ last.status = 429 /\ last.reset.kind = "num" /\ last.reset.v > 0
    /\ now = last.reset.v
    /\ log = <<"send", "sleep_rl", "send">>

\* C5: with --follow-cursor, a response whose last element has the id that
\* max_id held before it ends the loop at once: the output is written and
\* nothing else happens, no sleep and no further request, whatever cursor is.
StallStops ==
    [][ (Handled /\ args.follow_cursor /\ Ok(last'.status)
            /\ ~RateLimited(last'.status)
            /\ HasLastId(last'.body) /\ last'.body.last_id = max_id)
            => /\ pc' = "done"
               /\ log' = log \o <<"out", "stop">>
               /\ sleep' = 0
      ]_vars

\* C5 witness: the second page repeats the id of the first while a cursor is
\* pending, and the invocation has ended
StalledWithCursor ==
    /\ pc = "done"
    /\ args.follow_cursor
    /\ nsent = 2
    /\ Truthy(cursor)
    /\ HasLastId(last.body) /\ last.body.last_id = wire.max_id
    /\ log = <<"send", "out", "sleep_pace", "send", "out", "stop">>

\* C6: an invocation ended by a transport failure or by an interrupt leaves
\* its record file in place, holding the cursor / max_id of its last request;
\* and the same logical request run again, without explicit cursor / max_id
\* and with resume on, sends its first request with those values.
AbortKeepsResumableState ==
    /\ (pc = "failed" /\ exit \in {"ConnectionError", "KeyboardInterrupt"})
        => FileAt(req_hash) = FileOf(JsonDump(wire.cursor, wire.max_id))
    /\ (/\ runs > 1 /\ pc = "wait" /\ log = <<"send">>
        /\ prev.exit \in {"ConnectionError", "KeyboardInterrupt"}
        /\ SameLogicalRequest(prev.args, args)
        /\ args.data = EmptyMap /\ ~args.no_resume)
        => (wire.cursor = prev.wire.cursor /\ wire.max_id = prev.wire.max_id)

CallerValue(a, k) == IF a.data[k] # Absent THEN a.data[k] ELSE Null

\* C8: when the caller gives a cursor or a max_id, or sets --no-resume, the
\* first request carries the caller's values (in the query of a GET, in the
\* body of a POST) and no value of the record file.
ExplicitTakesPrecedence ==
    (/\ pc = "wait" /\ log = <<"send">>
     /\ (args.data # EmptyMap \/ args.no_resume))
        => IF args.post
           THEN /\ wire.body = args.data
                /\ wire.cursor = Null /\ wire.max_id = Null
           ELSE /\ wire.cursor = CallerValue(args, "cursor")
                /\ wire.max_id = CallerValue(args, "max_id")

\* C9: whatever the record file holds at the start, the invocation reaches
\* its first send; content that is no well-formed record leaves cursor and
\* max_id as the command line gave them.
CorruptRecordNeverBlocks ==
    (pc # "idle" /\ nsent = 0)
        => /\ pc = "send"
           /\ JsonLoad(FileAt(req_hash).disk).outcome # "ok"
                => (cursor = ExplicitCursor(args) /\ max_id = ExplicitMaxId(args))

\* the values written to standard output so far
Outputs == Len(SelectSeq(log, LAMBDA e : e = "out"))

\* C10 as first stated: at a clean stop the record file is gone exactly when
\* cursor is None or ''; it is never removed before; and one page of an
\* array without next_cursor, with no record file before, ends with no record
\* file, one output value and a clean exit.
RecordGoneIffCursorEmpty ==
    /\ pc = "done" => (FileAt(req_hash) = NoFile <=> cursor \in {Null, "s:"})
    /\ pc \notin {"idle", "done"} => FileAt(req_hash).exists
    /\ (pc = "done" /\ nsent = 1 /\ last.body.shape = "list" /\ ~found)
        => (FileAt(req_hash) = NoFile /\ Outputs = 1 /\ exit = "ok")

\* C10, amended: at a clean stop the record file is gone exactly when cursor
\* is false for Python (None, '' or 0), whatever max_id is; it is never
\* removed before; and one page of an array without next_cursor, with no
\* record file before and no cursor given by the caller, ends with no record
\* file, one output value and a clean exit.
RecordGoneIffCursorFalse ==
    /\ pc = "done" => (FileAt(req_hash) = NoFile <=> ~Truthy(cursor))
    /\ pc \notin {"idle", "done"} => FileAt(req_hash).exists
    /\ (pc = "done" /\ nsent = 1 /\ last.body.shape = "list" /\ ~found
            /\ ~Truthy(ExplicitCursor(args)))
        => (FileAt(req_hash) = NoFile /\ Outputs = 1 /\ exit = "ok")

\* C10 witness: a clean stop with max_id set and cursor false has removed
\* the record file
RecordRemovedWithMaxId ==
    /\ pc = "done" /\ exit = "ok"
    /\ ~found /\ nsent = 1
    /\ last.body.shape = "list" /\ Truthy(max_id) /\ cursor = Null
    /\ FileAt(req_hash) = NoFile
    /\ log = <<"send", "out", "stop">>

\* C11: without --follow-cursor, the step that handles the first response
\* that is not a 420 / 429 ends the invocation: no pacing sleep and no
\* further request, whatever cursor / max_id the response yields; throttled
\* attempts before it are retried.
SinglePageStops ==
    [][ (Handled /\ ~args.follow_cursor /\ ~RateLimited(last'.status))
            => /\ pc' \in {"done", "failed"}
               /\ sleep' = 0
               /\ nsent' = nsent
               /\ Len(SelectSeq(log', LAMBDA e : e = "sleep_pace")) = 0
      ]_vars

\* C11 witness: a single-page invocation was throttled once, retried, and
\* stopped on a response that carried a next_cursor
SinglePageAfterRetry ==
    /\ ~args.follow_cursor
    /\ pc = "done"
    /\ Truthy(cursor) /\ last.body.shape = "dict"
    /\ log = <<"send", "sleep_rl", "send", "out", "stop">>

\* C12: the number of values on standard output is the number of responses
\* handled that were not a 420 / 429: the step that handles such a response
\* writes exactly one value, first thing, before any sleep, stop or further
\* request; a throttled response writes none, and nothing else writes.
OutputAccounting ==
    [][ /\ (Handled /\ ~RateLimited(last'.status))
            => /\ Outputs' = Outputs + 1
               /\ Len(log') > Len(log) /\ log'[Len(log) + 1] = "out"
               /\ nsent' = nsent
        /\ (Handled /\ RateLimited(last'.status)) => Outputs' = Outputs
        /\ (~Handled /\ runs' = runs) => Outputs' = Outputs
      ]_vars

\* C12 witness: two responses, a 429 and then a 404, and one value written
ThrottledThenError ==
    /\ pc = "failed" /\ exit = "HTTPError"
    /\ nsent = 2 /\ Outputs = 1
    /\ log = <<"send", "sleep_rl", "send", "out", "raise">>

\* C13: with --follow-cursor and header-based pacing, a response whose
\* x-rate-limit-remaining is 0 (reset header present) does not end the
\* invocation with a division by zero: the pacing step sleeps for --wait.
ZeroRemainingFallsBack ==
    /\ exit # "ZeroDivisionError"
    /\ (pc = "failed" /\ args.follow_cursor /\ ~args.ignore_ratelimit
            /\ Ok(last.status) /\ ~RateLimited(last.status) /\ nsent > 0
            /\ exit \notin {"ConnectionError", "KeyboardInterrupt", "ValueError"})
        => \A n \in 0..MaxTime :
              PacingStep(args, Num(n), Num(0), now) =
                  [next |-> "sleep", delay |-> args.wait]

\* C14: while two invocations share a record file, the file holds at any
\* time nothing or exactly one well-formed {cursor, max_id} record, never
\* more than one record and never anything else.
SharedRecordWellFormed ==
    SharedHash \in DOMAIN files =>
        LET disk == FileAt(SharedHash).disk
        IN  \/ disk = << >>
            \/ Len(disk) = 1 /\ disk[1].kind = "object"

\* C15: with --no-resume, a record file that was there when the invocation
\* started is left as it was by every step of the invocation (not
\* overwritten, not removed), and the first request carries the values of
\* the command line, not those of the record.
NoResumeLeavesRecord ==
    [][ (pc # "idle" /\ args.no_resume /\ found)
            => /\ FileAt(req_hash)' = FileAt(req_hash)
               /\ (nsent = 0 /\ nsent' = 1)
                    => /\ wire'.cursor = ExplicitCursor(args)
                       /\ wire'.max_id = ExplicitMaxId(args)
      ]_vars

\* the values a record can hold: None, a str or a number
RecordValues == {Null, "s:", "s:a", "s:b", "s:1", "n:0", "n:1", "n:2"}

\* C16: a pair (cursor, max_id) of strings, numbers or nulls that is saved
\* and then loaded comes back as it was; and an invocation that finds the
\* record the one before it saved starts from exactly the pair saved,
\* while one that finds a new or empty file starts from (null, null).
ResumeRoundTrip ==
    /\ \A c \in RecordValues, m \in RecordValues :
          JsonLoad(JsonDump(c, m)) = [outcome |-> "ok", cursor |-> c, max_id |-> m]
    /\ (/\ pc = "send" /\ nsent = 0
        /\ ~args.no_resume /\ args.data = EmptyMap)
        => /\ (runs > 1 /\ prev.args = args /\ prev.wire # NoWire
                    /\ FileAt(req_hash).disk # << >>)
                => (cursor = prev.wire.cursor /\ max_id = prev.wire.max_id)
           /\ FileAt(req_hash).disk = << >>
                => (cursor = Null /\ max_id = Null)

\* C16 witness: the second invocation has loaded the pair ("1", null) that
\* the first one saved
LoadedWhatWasSaved ==
    /\ runs = 2 /\ pc = "send" /\ nsent = 0
    /\ ~args.no_resume /\ args.data = EmptyMap /\ prev.args = args
    /\ prev.wire.cursor = "s:1" /\ prev.wire.max_id = Null
    /\ cursor = "s:1" /\ max_id = Null

\* C17: the invocation is in a pacing sleep only when the loop goes on
\* after it: --follow-cursor is set and cursor or max_id is non-empty, so
\* that the sleep is followed by another request.
PacingOnlyBeforeSend ==
    /\ pc = "sleep_pace"
        => (args.follow_cursor /\ (Truthy(cursor) \/ Truthy(max_id)))
    /\ (pc = "done" /\ nsent > 0)
        => log[Len(log) - 1] # "sleep_pace"

\* a body that matches a pagination pattern: a mapping with next_cursor, or
\* a sequence whose last element has an id
Recognised(resp) ==
    \/ resp.shape = "dict" /\ resp.next_cursor # Absent
    \/ HasLastId(resp)

\* C18: a request is in flight after a response that got past the
\* rate-limit branch only if that response matched a pagination pattern:
\* after a body that matches neither, no further page is requested,
\* whatever cursor / max_id held before.
UnrecognisedBodyStops ==
    (pc = "wait" /\ last.status # 0 /\ ~RateLimited(last.status))
        => Recognised(last.body)

\* C19: handling a successful response changes cursor only when the body
\* is a mapping with a next_cursor field (cursor becomes that value) and
\* max_id only when the body is a sequence whose last element has an id
\* (max_id becomes that id); for any other body the field keeps its value.
ContinuationFrame ==
    [][ (Handled /\ ~RateLimited(last'.status) /\ Ok(last'.status))
            => /\ cursor' = IF /\ last'.body.shape = "dict"
                               /\ last'.body.next_cursor # Absent
                            THEN last'.body.next_cursor ELSE cursor
               /\ max_id' = IF HasLastId(last'.body)
                            THEN last'.body.last_id ELSE max_id
      ]_vars

\* C20: at a clean stop with a non-empty cursor the record file holds the
\* cursor / max_id of the last request sent, whatever the last response
\* gave; and the same command run again with resume on sends that very
\* request again as its first.
CheckpointIsLastSent ==
    /\ (pc = "done" /\ Truthy(cursor))
        => FileAt(req_hash) = FileOf(JsonDump(wire.cursor, wire.max_id))
    /\ (/\ runs > 1 /\ pc = "wait" /\ log = <<"send">>
        /\ prev.exit = "ok" /\ found /\ prev.args = args
        /\ ~args.no_resume /\ args.data = EmptyMap)
        => wire = prev.wire

\* C20 witness: the first invocation got a next_cursor for a request sent
\* without one and stopped; the second one sends the request without it
RefetchedAfterCleanStop ==
    /\ runs = 2 /\ pc = "wait" /\ log = <<"send">>
    /\ prev.exit = "ok" /\ found /\ prev.args = args
    /\ ~args.no_resume /\ args.data = EmptyMap
    /\ wire.cursor = Null /\ wire.max_id = Null
    /\ FileAt(req_hash) = FileOf(<< >>)

====
